---- MODULE Spec2Model ----
(***************************************************************************)
(* Model of src/scraper.py: LinkedInScraper.login, scrape_profile,         *)
(* _expand_sections, scrape_profiles_from_excel and close.                 *)
(*                                                                         *)
(* Text is a sequence of one-character strings, so that str.lower, the     *)
(* "in" substring test, str.strip and json.dumps are computed and not      *)
(* assumed.  A Python dict is a sequence of <<key, value>> pairs with      *)
(* unique keys, in insertion order.  An optional element (the result of    *)
(* select_one, or of link.get("href")) is <<>> when absent and <<x>> when  *)
(* present.                                                                *)
(***************************************************************************)
EXTENDS Integers, Sequences, FiniteSets, TLC

\* Largest number of identifiers in the input spreadsheet.
MaxN == 2

\* Largest number of contact-info links of a document drawn by InitSocial.
MaxLinks == 2

----------------------------------------------------------------------------
\* Text helpers

UpperAlpha == <<"A","B","C","D","E","F","G","H","I","J","K","L","M",
                "N","O","P","Q","R","S","T","U","V","W","X","Y","Z">>

LowerAlpha == <<"a","b","c","d","e","f","g","h","i","j","k","l","m",
                "n","o","p","q","r","s","t","u","v","w","x","y","z">>

LowerChar(c) ==
  IF \E k \in 1..26 : UpperAlpha[k] = c
  THEN LowerAlpha[CHOOSE k \in 1..26 : UpperAlpha[k] = c]
  ELSE c

\* str.lower()
Lower(s) == [k \in 1..Len(s) |-> LowerChar(s[k])]

\* needle in hay
Contains(needle, hay) ==
  \E k \in 0..(Len(hay) - Len(needle)) :
     SubSeq(hay, k + 1, k + Len(needle)) = needle

Whitespace == {" ", "\n", "\t"}

\* str.strip()
Strip(s) ==
  LET keep == {k \in 1..Len(s) : s[k] \notin Whitespace}
  IN  IF keep = {} THEN <<>>
      ELSE LET lo == CHOOSE k \in keep : \A j \in keep : k <= j
               hi == CHOOSE k \in keep : \A j \in keep : j <= k
           IN  SubSeq(s, lo, hi)

NoElem == <<>>

Elem(x) == <<x>>

Present(e) == Len(e) = 1

\* element.get_text().strip()
GetText(e) == Strip(e[1])

----------------------------------------------------------------------------
\* Python dict and json.dumps

DictKeys(d) == {d[k][1] : k \in 1..Len(d)}

DictGet(d, key) == d[CHOOSE k \in 1..Len(d) : d[k][1] = key][2]

\* d[key] = val : an existing key keeps its position, a new key is appended
DictSet(d, key, val) ==
  IF key \in DictKeys(d)
  THEN [k \in 1..Len(d) |-> IF d[k][1] = key THEN <<key, val>> ELSE d[k]]
  ELSE Append(d, <<key, val>>)

JsonEscapeChar(c) ==
  CASE c = "\"" -> <<"\\", "\"">>
    [] c = "\\" -> <<"\\", "\\">>
    [] c = "\n" -> <<"\\", "n">>
    [] c = "\t" -> <<"\\", "t">>
    [] OTHER    -> <<c>>

RECURSIVE JsonEscape(_)
JsonEscape(s) ==
  IF s = <<>> THEN <<>> ELSE JsonEscapeChar(Head(s)) \o JsonEscape(Tail(s))

JsonString(s) == <<"\"">> \o JsonEscape(s) \o <<"\"">>

RECURSIVE JsonItems(_)
JsonItems(d) ==
  IF d = <<>> THEN <<>>
  ELSE JsonString(d[1][1]) \o <<":", " ">> \o JsonString(d[1][2])
       \o (IF Len(d) > 1 THEN <<",", " ">> ELSE <<>>)
       \o JsonItems(Tail(d))

\* json.dumps(d) for a dict of str to str, default separators
JsonDumps(d) == <<"{">> \o JsonItems(d) \o <<"}">>

----------------------------------------------------------------------------
\* The remote site: the live page the driver shows for each identifier.
\* A live page (DOM) is
\*   name, bio      optional header text nodes
\*   contact        anchors in the contact-info region now
\*   contactHidden  anchors the contact-info disclosure adds when triggered
\*   contactButton  whether the disclosure control exists
\*   sections       per section: optional list of entries now in the page
\*   more           per section: entries its "show more" control adds
\* An anchor is [text, href]; a section entry is [key, val], the two
\* optional child elements the extractor pairs.

SectionNames == {"Experience", "Education", "Certifications", "Projects"}

Link(text, href) == [text |-> text, href |-> href]

Item(key, val) == [key |-> key, val |-> val]

NoSections == [s \in SectionNames |-> NoElem]

NoMore == [s \in SectionNames |-> <<>>]

IdA == <<"i","n","/","a">>

IdB == <<"i","n","/","b">>

IdC == <<"i","n","/","c">>

Ids == {IdA, IdB, IdC}

LinkTwitter == Link(<<" ","a","_","t","\n">>, Elem(<<"T","w","i","t","t","e","r",".","c","o","/","a">>))

LinkGithubFirst == Link(<<"a","g","h">>, Elem(<<"G","i","t","H","u","b",".","i","o","/","w","e","b","s","i","t","e">>))

LinkUnknown == Link(<<"x">>, Elem(<<"e","x",".","o","r","g">>))

LinkPortfolio == Link(<<"s","i","t","e">>, Elem(<<"a",".","d","e","v","/","P","o","r","t","f","o","l","i","o">>))

LinkFacebookFirst == Link(<<"f","b">>, Elem(<<"f","a","c","e","b","o","o","k","/","i","n","s","t","a","g","r","a","m">>))

LinkInstagram == Link(<<"i","g">>, Elem(<<"i","n","s","t","a","g","r","a","m","/","b">>))

LinkNoHref == Link(<<"n","o">>, NoElem)

LinkTwitter2 == Link(<<"t","w","\"">>, Elem(<<"x","/","t","w","i","t","t","e","r">>))

LinkWebsite == Link(<<"w">>, Elem(<<"m","y",".","W","E","B","S","I","T","E">>))

PageA ==
  [name |-> Elem(<<" ","A","n","n"," ">>),
   bio |-> Elem(<<"D","e","v">>),
   contact |-> <<LinkTwitter, LinkGithubFirst, LinkUnknown>>,
   contactHidden |-> <<LinkPortfolio, LinkFacebookFirst>>,
   contactButton |-> TRUE,
   sections |->
     [NoSections EXCEPT
        !["Experience"] = Elem(<<Item(Elem(<<"A","c","m","e">>), Elem(<<"E","n","g">>)),
                                 Item(NoElem, Elem(<<"L","e","a","d">>))>>),
        !["Education"] = Elem(<<Item(Elem(<<"M","I","T">>), NoElem)>>),
        !["Projects"] = Elem(<<Item(Elem(<<"P">>), Elem(<<"d","\n","e">>)),
                               Item(NoElem, Elem(<<"z">>))>>)],
   more |-> [NoMore EXCEPT
        !["Experience"] = <<Item(Elem(<<" ","A","c","m","e">>), Elem(<<"C","T","O">>))>>]]

PageB ==
  [name |-> NoElem,
   bio |-> Elem(<<" ">>),
   contact |-> <<LinkInstagram, LinkNoHref, LinkTwitter2>>,
   contactHidden |-> <<>>,
   contactButton |-> FALSE,
   sections |->
     [NoSections EXCEPT
        !["Certifications"] = Elem(<<Item(Elem(<<"A","W","S">>), Elem(<<"S","A">>)),
                                     Item(Elem(<<"G","C","P">>), NoElem)>>),
        !["Education"] = Elem(<<>>)],
   more |-> [NoMore EXCEPT
        !["Education"] = <<Item(NoElem, Elem(<<"B","S","c">>)),
                           Item(Elem(<<"E","T","H">>), Elem(<<"M","S","c">>))>>]]

PageC ==
  [name |-> Elem(<<"C","y">>),
   bio |-> NoElem,
   contact |-> <<>>,
   contactHidden |-> <<LinkNoHref, LinkWebsite>>,
   contactButton |-> TRUE,
   sections |-> NoSections,
   more |-> NoMore]

\* the page the site serves for an identifier
Site(url) ==
  CASE url = IdA -> PageA
    [] url = IdB -> PageB
    [] OTHER    -> PageC

\* the page of a driver that has not navigated yet
BlankPage ==
  [name |-> NoElem, bio |-> NoElem, contact |-> <<>>, contactHidden |-> <<>>,
   contactButton |-> FALSE, sections |-> NoSections, more |-> NoMore]

\* BeautifulSoup(self.driver.page_source, "html.parser"): the immutable
\* snapshot of what the live page holds at this moment
Snapshot(page) ==
  [name |-> page.name, bio |-> page.bio, links |-> page.contact,
   sections |-> page.sections]

\* the ".pv-profile-section__see-more-inline" controls of the live page
ShowMoreButtons(page) == {s \in SectionNames : page.more[s] # <<>>}

\* effect on the live page of the show-more clicks that succeeded
ClickShowMore(page, clicked) ==
  [page EXCEPT
     !.sections = [s \in SectionNames |->
                     IF s \in clicked
                     THEN Elem((IF Present(page.sections[s])
                                THEN page.sections[s][1] ELSE <<>>)
                               \o page.more[s])
                     ELSE page.sections[s]],
     !.more = [s \in SectionNames |->
                 IF s \in clicked THEN <<>> ELSE page.more[s]]]

\* effect on the live page of a successful contact-info disclosure
ClickContactInfo(page) ==
  [page EXCEPT !.contact = page.contact \o page.contactHidden,
               !.contactHidden = <<>>]

----------------------------------------------------------------------------
\* Field extractors of scrape_profile

fieldnames ==
  <<"LinkedIn URL", "Name", "Bio", "Socials", "Experience", "Education",
    "Certifications", "Projects">>

FieldSet == {fieldnames[k] : k \in 1..Len(fieldnames)}

MappingFields == <<"Socials", "Experience", "Education", "Certifications", "Projects">>

S_twitter == <<"t","w","i","t","t","e","r">>

S_github == <<"g","i","t","h","u","b">>

S_facebook == <<"f","a","c","e","b","o","o","k">>

S_instagram == <<"i","n","s","t","a","g","r","a","m">>

S_website == <<"w","e","b","s","i","t","e">>

S_portfolio == <<"p","o","r","t","f","o","l","i","o">>

K_Twitter == <<"T","w","i","t","t","e","r">>

K_GitHub == <<"G","i","t","H","u","b">>

K_Facebook == <<"F","a","c","e","b","o","o","k">>

K_Instagram == <<"I","n","s","t","a","g","r","a","m">>

K_Website == <<"W","e","b","s","i","t","e">>

\* new_profile_data with the display name defaulting to the identifier
new_profile_data_named(profile_url) ==
  [f \in FieldSet |-> IF f \in {"LinkedIn URL", "Name"} THEN profile_url ELSE <<>>]

\* the initial profile_data of scrape_profile
new_profile_data(profile_url) ==
  [f \in FieldSet |-> IF f = "LinkedIn URL" THEN profile_url ELSE <<>>]

\* classify_link with the website/portfolio test moved to the front
classify_link_website_first(socials, link) ==
  LET link_text == Strip(link.text)
      link_url  == link.href[1]
      low       == Lower(link_url)
  IN  IF Contains(S_website, low) \/ Contains(S_portfolio, low)
           THEN DictSet(socials, K_Website, link_url)
      ELSE IF Contains(S_twitter, low) THEN DictSet(socials, K_Twitter, link_text)
      ELSE IF Contains(S_github, low) THEN DictSet(socials, K_GitHub, link_text)
      ELSE IF Contains(S_facebook, low) THEN DictSet(socials, K_Facebook, link_text)
      ELSE IF Contains(S_instagram, low) THEN DictSet(socials, K_Instagram, link_text)
      ELSE socials

\* body of the loop over social_links for one link that has an href
classify_link(socials, link) ==
  LET link_text == Strip(link.text)
      link_url  == link.href[1]
      low       == Lower(link_url)
  IN  IF Contains(S_twitter, low) THEN DictSet(socials, K_Twitter, link_text)
      ELSE IF Contains(S_github, low) THEN DictSet(socials, K_GitHub, link_text)
      ELSE IF Contains(S_facebook, low) THEN DictSet(socials, K_Facebook, link_text)
      ELSE IF Contains(S_instagram, low) THEN DictSet(socials, K_Instagram, link_text)
      ELSE IF Contains(S_website, low) \/ Contains(S_portfolio, low)
           THEN DictSet(socials, K_Website, link_url)
      ELSE socials

\* extract_socials collecting into a local dict that is stored only when
\* the whole loop succeeds
RECURSIVE extract_socials_all_or_nothing(_, _)
extract_socials_all_or_nothing(links, socials) ==
  IF links = <<>> THEN [socials |-> socials, failed |-> FALSE]
  ELSE IF ~Present(Head(links).href) THEN [socials |-> <<>>, failed |-> TRUE]
  ELSE extract_socials_all_or_nothing(Tail(links),
                                      classify_link(socials, Head(links)))

\* the social-links try block: link.get("href") is None for an anchor with
\* no href, and None.lower() raises; the entries already stored stay stored
RECURSIVE extract_socials(_, _)
extract_socials(links, socials) ==
  IF links = <<>> THEN [socials |-> socials, failed |-> FALSE]
  ELSE IF ~Present(Head(links).href) THEN [socials |-> socials, failed |-> TRUE]
  ELSE extract_socials(Tail(links), classify_link(socials, Head(links)))

\* the loop shared by the four section extractors: an entry contributes
\* when its key element exists and, if the section requires it, its value
\* element too; a missing optional value is ""
RECURSIVE pair_items(_, _, _)
pair_items(items, acc, needVal) ==
  IF items = <<>> THEN acc
  ELSE LET item == Head(items)
           take == Present(item.key) /\ (needVal => Present(item.val))
           val  == IF Present(item.val) THEN GetText(item.val) ELSE <<>>
       IN  pair_items(Tail(items),
                      IF take THEN DictSet(acc, GetText(item.key), val) ELSE acc,
                      needVal)

section_items(doc, s) ==
  IF Present(doc.sections[s]) THEN doc.sections[s][1] ELSE <<>>

\* key: company (.pv-entity__secondary-title), value: role
extract_experience(doc) == pair_items(section_items(doc, "Experience"), <<>>, TRUE)

\* key: school, value: degree or ""
extract_education(doc) == pair_items(section_items(doc, "Education"), <<>>, FALSE)

\* key: issuer, value: certification name; both required
extract_certifications(doc) == pair_items(section_items(doc, "Certifications"), <<>>, TRUE)

\* key: title, value: description or ""
extract_projects(doc) == pair_items(section_items(doc, "Projects"), <<>>, FALSE)

\* name, bio and social links, read from the given snapshot
extract_top(data, doc) ==
  [data EXCEPT
     !["Name"] = IF Present(doc.name) THEN GetText(doc.name) ELSE @,
     !["Bio"] = IF Present(doc.bio) THEN GetText(doc.bio) ELSE @,
     !["Socials"] = extract_socials(doc.links, @).socials]

\* experience, education, certifications and projects
extract_sections(data, doc) ==
  [data EXCEPT
     !["Experience"] = extract_experience(doc),
     !["Education"] = extract_education(doc),
     !["Certifications"] = extract_certifications(doc),
     !["Projects"] = extract_projects(doc)]

\* "Convert dictionaries to strings for CSV"
serialise(data) ==
  [f \in DOMAIN data |->
     IF \E k \in 1..Len(MappingFields) : MappingFields[k] = f
     THEN JsonDumps(data[f]) ELSE data[f]]

EmptyJson == <<"{", "}">>

\* empty_data with the last field forgotten
empty_data_short(url) ==
  [f \in FieldSet \ {"Projects"} |->
     IF f = "LinkedIn URL" THEN url
     ELSE IF f \in {"Name", "Bio"} THEN <<>>
     ELSE EmptyJson]

\* the row written for a failed profile
empty_data(url) ==
  [f \in FieldSet |->
     IF f = "LinkedIn URL" THEN url
     ELSE IF f \in {"Name", "Bio"} THEN <<>>
     ELSE EmptyJson]

----------------------------------------------------------------------------
\* State

VARIABLES
  profile_urls,   \* the identifiers read from the spreadsheet, in order
  idx,            \* position of the for loop: profile_urls[idx] is current
  pc,             \* control point of scrape_profiles_from_excel
  is_logged_in,   \* self.is_logged_in
  login_log,      \* outcome of every call of login(), in call order
  quit_calls,     \* number of driver.quit() calls
  page,           \* the live page of the driver
  soup,           \* [gen, doc]: the snapshot bound to soup, gen counts parses
  read_from,      \* per field: gen of the snapshot its extractor read, 0 if none
  profile_data,   \* the record being assembled / returned
  outcome,        \* how the current scrape_profile call ended
  log,            \* what the current scrape_profile call logged
  nav_log,        \* per started identifier: outcome of its page synchronisation
  header,         \* the CSV header row has been written
  rows,           \* the dicts handed to writer.writerow, in order
  paced,          \* per written row: time.sleep(3) ran after it
  raising         \* an exception is propagating out of the batch

vars ==
  <<profile_urls, idx, pc, is_logged_in, login_log, quit_calls, page, soup,
    read_from, profile_data, outcome, log, nav_log, header, rows, paced,
    raising>>

url == profile_urls[idx]

NoReads == [f \in FieldSet \ {"LinkedIn URL"} |-> 0]

UrlLists == UNION {[1..n -> Ids] : n \in 0..MaxN}

\* a scraper just constructed (is_logged_in = False, driver started) and
\* about to run scrape_profiles_from_excel on some spreadsheet
Init ==
  /\ profile_urls \in UrlLists
  /\ idx = 0
  /\ pc = "read"
  /\ is_logged_in = FALSE
  /\ login_log = <<>>
  /\ quit_calls = 0
  /\ page = BlankPage
  /\ soup = [gen |-> 0, doc |-> Snapshot(BlankPage)]
  /\ read_from = NoReads
  /\ profile_data = new_profile_data(<<>>)
  /\ outcome = "none"
  /\ log = {}
  /\ nav_log = <<>>
  /\ header = FALSE
  /\ rows = <<>>
  /\ paced = <<>>
  /\ raising = FALSE

----------------------------------------------------------------------------
\* scrape_profiles_from_excel, before the loop

\* pd.read_excel / df.columns[0] / tolist(): succeeds or raises
read_excel ==
  /\ pc = "read"
  /\ \E ok \in BOOLEAN : pc' = IF ok THEN "open" ELSE "batch_except"
  /\ UNCHANGED <<profile_urls, idx, is_logged_in, login_log, quit_calls, page,
                 soup, read_from, profile_data, outcome, log, nav_log, header,
                 rows, paced, raising>>

\* open(output_csv) and writer.writeheader(): succeeds or raises
open_csv ==
  /\ pc = "open"
  /\ \E ok \in BOOLEAN :
       /\ header' = ok
       /\ pc' = IF ok THEN "loop" ELSE "batch_except"
  /\ UNCHANGED <<profile_urls, idx, is_logged_in, login_log, quit_calls, page,
                 soup, read_from, profile_data, outcome, log, nav_log, rows,
                 paced, raising>>

\* for url in profile_urls: next identifier, or the loop is over
for_loop ==
  /\ pc = "loop"
  /\ IF idx < Len(profile_urls)
     THEN /\ idx' = idx + 1
          /\ pc' = "call"
          /\ nav_log' = Append(nav_log, "none")
     ELSE /\ pc' = "finally"
          /\ UNCHANGED <<idx, nav_log>>
  /\ UNCHANGED <<profile_urls, is_logged_in, login_log, quit_calls, page, soup,
                 read_from, profile_data, outcome, log, header, rows, paced,
                 raising>>

----------------------------------------------------------------------------
\* scrape_profile

\* login that never records its success
login_forgetful ==
  \E ok \in BOOLEAN :
    /\ login_log' = Append(login_log, ok)
    /\ is_logged_in' = FALSE

\* login(): the login page and the post-login marker show up, or one of
\* the waits times out / the driver fails, and the exception is re-raised
login ==
  \E ok \in BOOLEAN :
    /\ login_log' = Append(login_log, ok)
    /\ is_logged_in' = ok

\* entry of scrape_profile: "if not self.is_logged_in: self.login()" runs
\* outside the try block, then profile_data is initialised
scrape_profile_enter ==
  /\ pc = "call"
  /\ IF is_logged_in
     THEN UNCHANGED <<is_logged_in, login_log>>
     ELSE login
  /\ IF is_logged_in'
     THEN /\ profile_data' = new_profile_data(url)
          /\ outcome' = "running"
          /\ pc' = "get"
     ELSE /\ outcome' = "raised"
          /\ pc' = "except"
          /\ UNCHANGED profile_data
  /\ log' = {}
  /\ read_from' = NoReads
  /\ UNCHANGED <<profile_urls, idx, quit_calls, page, soup, nav_log, header,
                 rows, paced, raising>>

\* outer except clauses that log and re-raise, as those of login do
absorb_reraise(kind) ==
  /\ log' = log \cup {kind}
  /\ outcome' = "raised"
  /\ pc' = "except"

\* the outer except clauses of scrape_profile: log and return profile_data
absorb(kind) ==
  /\ log' = log \cup {kind}
  /\ outcome' = "returned"
  /\ pc' = "write"

\* driver.get, the wait for ".pv-top-card", the settle delay and the first
\* parse; any of them may raise
scrape_profile_get ==
  /\ pc = "get"
  /\ \E r \in {"ok", "get_error", "timeout", "source_error"} :
       /\ nav_log' = [nav_log EXCEPT ![idx] = r]
       /\ IF r = "ok"
          THEN /\ page' = Site(url)
               /\ soup' = [gen |-> 1, doc |-> Snapshot(page')]
               /\ pc' = "top"
               /\ UNCHANGED <<log, outcome>>
          ELSE /\ absorb(r)
               /\ page' = IF r = "source_error" THEN Site(url) ELSE page
               /\ soup' = [gen |-> 0, doc |-> soup.doc]
  /\ UNCHANGED <<profile_urls, idx, is_logged_in, login_log, quit_calls,
                 read_from, profile_data, header, rows, paced, raising>>

\* name, bio and social links are extracted from the snapshot bound to
\* soup at this point, each in its own try block
scrape_profile_top ==
  /\ pc = "top"
  /\ profile_data' = extract_top(profile_data, soup.doc)
  /\ read_from' = [read_from EXCEPT !["Name"] = soup.gen, !["Bio"] = soup.gen,
                                    !["Socials"] = soup.gen]
  /\ log' = IF extract_socials(soup.doc.links, <<>>).failed
            THEN log \cup {"social_warning"} ELSE log
  /\ pc' = "expand"
  /\ UNCHANGED <<profile_urls, idx, is_logged_in, login_log, quit_calls, page,
                 soup, outcome, nav_log, header, rows, paced, raising>>

\* _expand_sections: find_elements may raise (then nothing is clicked, the
\* contact-info block included); each show-more click and the contact-info
\* click may fail on its own and is then skipped
expand_sections ==
  /\ pc = "expand"
  /\ \E found \in BOOLEAN :
     \E clicked \in SUBSET ShowMoreButtons(page) :
     \E contact \in BOOLEAN :
       /\ ~found => (clicked = {} /\ ~contact)
       /\ contact => page.contactButton
       /\ page' = IF contact THEN ClickContactInfo(ClickShowMore(page, clicked))
                  ELSE ClickShowMore(page, clicked)
       /\ log' = IF found THEN log ELSE log \cup {"expand_warning"}
  /\ pc' = "reparse"
  /\ UNCHANGED <<profile_urls, idx, is_logged_in, login_log, quit_calls, soup,
                 read_from, profile_data, outcome, nav_log, header, rows,
                 paced, raising>>

\* "Re-parse the page after expanding sections"; page_source may raise
scrape_profile_reparse ==
  /\ pc = "reparse"
  /\ \E ok \in BOOLEAN :
       IF ok
       THEN /\ soup' = [gen |-> 2, doc |-> Snapshot(page)]
            /\ pc' = "sections"
            /\ UNCHANGED <<log, outcome>>
       ELSE /\ absorb("source_error")
            /\ UNCHANGED soup
  /\ UNCHANGED <<profile_urls, idx, is_logged_in, login_log, quit_calls, page,
                 read_from, profile_data, nav_log, header, rows, paced,
                 raising>>

\* experience, education, certifications and projects are extracted from
\* the snapshot bound to soup at this point; then the record is returned
scrape_profile_sections ==
  /\ pc = "sections"
  /\ profile_data' = extract_sections(profile_data, soup.doc)
  /\ read_from' = [read_from EXCEPT !["Experience"] = soup.gen,
                                    !["Education"] = soup.gen,
                                    !["Certifications"] = soup.gen,
                                    !["Projects"] = soup.gen]
  /\ outcome' = "returned"
  /\ pc' = "write"
  /\ UNCHANGED <<profile_urls, idx, is_logged_in, login_log, quit_calls, page,
                 soup, log, nav_log, header, rows, paced, raising>>

----------------------------------------------------------------------------
\* scrape_profiles_from_excel, the loop body after scrape_profile returned

\* json.dumps of the five mappings, writer.writerow, time.sleep(3);
\* writerow raises before anything is written (a key outside fieldnames,
\* an encoding or I/O error) or writes the row
write_row ==
  /\ pc = "write"
  /\ profile_data' = serialise(profile_data)
  /\ \E ok \in BOOLEAN :
       IF ok /\ DOMAIN profile_data' \subseteq FieldSet
       THEN /\ rows' = Append(rows, profile_data')
            /\ paced' = Append(paced, TRUE)
            /\ pc' = "loop"
       ELSE /\ pc' = "except"
            /\ UNCHANGED <<rows, paced>>
  /\ UNCHANGED <<profile_urls, idx, is_logged_in, login_log, quit_calls, page,
                 soup, read_from, outcome, log, nav_log, header, raising>>

\* per-identifier except clause that only logs
handle_error_log_only ==
  /\ pc = "except"
  /\ pc' = "loop"
  /\ UNCHANGED <<profile_urls, idx, is_logged_in, login_log, quit_calls, page,
                 soup, read_from, profile_data, outcome, log, nav_log, header,
                 raising, rows, paced>>

\* the per-identifier except clause: log, write empty_data; no sleep here.
\* If this writerow raises too, the exception leaves the loop.
handle_error ==
  /\ pc = "except"
  /\ \E ok \in BOOLEAN :
       IF ok /\ DOMAIN empty_data(url) \subseteq FieldSet
       THEN /\ rows' = Append(rows, empty_data(url))
            /\ paced' = Append(paced, FALSE)
            /\ pc' = "loop"
       ELSE /\ pc' = "batch_except"
            /\ UNCHANGED <<rows, paced>>
  /\ UNCHANGED <<profile_urls, idx, is_logged_in, login_log, quit_calls, page,
                 soup, read_from, profile_data, outcome, log, nav_log, header,
                 raising>>

\* the batch-level except clause: log and re-raise
batch_except ==
  /\ pc = "batch_except"
  /\ raising' = TRUE
  /\ pc' = "finally"
  /\ UNCHANGED <<profile_urls, idx, is_logged_in, login_log, quit_calls, page,
                 soup, read_from, profile_data, outcome, log, nav_log, header,
                 rows, paced>>

\* close reached only on the normal path, as if called after the try
\* statement instead of in its finally clause
close_on_success_only ==
  quit_calls' = IF raising THEN quit_calls ELSE quit_calls + 1

\* close(): "if self.driver: self.driver.quit()"; self.driver is never
\* reset, so the test is always true
close ==
  quit_calls' = quit_calls + 1

\* the finally clause
finally ==
  /\ pc = "finally"
  /\ close
  /\ pc' = IF raising THEN "raised" ELSE "done"
  /\ UNCHANGED <<profile_urls, idx, is_logged_in, login_log, page, soup,
                 read_from, profile_data, outcome, log, nav_log, header, rows,
                 paced, raising>>

Next ==
  \/ read_excel
  \/ open_csv
  \/ for_loop
  \/ scrape_profile_enter
  \/ scrape_profile_get
  \/ scrape_profile_top
  \/ expand_sections
  \/ scrape_profile_reparse
  \/ scrape_profile_sections
  \/ write_row
  \/ handle_error
  \/ batch_except
  \/ finally

Spec == Init /\ [][Next]_vars


----------------------------------------------------------------------------
\* The social-link extractor on its own: one identifier has been navigated
\* to, its page holds any list of at most MaxLinks anchors, and the first
\* snapshot has just been taken (line 146).

LinkPool ==
  {LinkTwitter, LinkGithubFirst, LinkUnknown, LinkPortfolio, LinkFacebookFirst,
   LinkInstagram, LinkNoHref, LinkTwitter2, LinkWebsite}

LinkLists == UNION {[1..n -> LinkPool] : n \in 0..MaxLinks}

InitSocial ==
  /\ profile_urls = <<IdC>>
  /\ idx = 1
  /\ pc = "top"
  /\ is_logged_in = TRUE
  /\ login_log = <<TRUE>>
  /\ quit_calls = 0
  /\ \E ls \in LinkLists : page = [BlankPage EXCEPT !.contact = ls]
  /\ soup = [gen |-> 1, doc |-> Snapshot(page)]
  /\ read_from = NoReads
  /\ profile_data = new_profile_data(IdC)
  /\ outcome = "running"
  /\ log = {}
  /\ nav_log = <<"ok">>
  /\ header = TRUE
  /\ rows = <<>>
  /\ paced = <<>>
  /\ raising = FALSE

NextSocial == scrape_profile_top

SpecSocial == InitSocial /\ [][NextSocial]_vars

----------------------------------------------------------------------------
\* Vocabulary of the properties

Last(s) == s[Len(s)]

SyncFailures == {"get_error", "timeout", "source_error"}

MappingSet == {MappingFields[k] : k \in 1..Len(MappingFields)}

\* the platform substrings in the order the specification gives them
PlatformOrder ==
  <<<<S_twitter, K_Twitter>>, <<S_github, K_GitHub>>,
    <<S_facebook, K_Facebook>>, <<S_instagram, K_Instagram>>>>

NoLabel == <<>>

PlatformMatches(low) ==
  {k \in 1..Len(PlatformOrder) : Contains(PlatformOrder[k][1], low)}

LabelOf(link) ==
  LET low == Lower(link.href[1])
      hit == PlatformMatches(low)
  IN  IF hit # {}
      THEN PlatformOrder[CHOOSE k \in hit : \A j \in hit : k <= j][2]
      ELSE IF Contains(S_website, low) \/ Contains(S_portfolio, low)
           THEN K_Website
           ELSE NoLabel

ValueOf(link, label) ==
  IF label = K_Website THEN link.href[1] ELSE Strip(link.text)

\* the links in front of the first anchor that has no target URL
WithTarget(links) ==
  LET bad == {k \in 1..Len(links) : ~Present(links[k].href)}
  IN  IF bad = {} THEN links
      ELSE SubSeq(links, 1, (CHOOSE k \in bad : \A j \in bad : k <= j) - 1)

\* socials holds exactly the classification of links, last link per label
Classified(socials, links) ==
  LET label == [k \in 1..Len(links) |-> LabelOf(links[k])]
      keys  == DictKeys(socials)
  IN  /\ Len(socials) = Cardinality(keys)
      /\ keys = {label[k] : k \in 1..Len(links)} \ {NoLabel}
      /\ \A key \in keys :
           LET at == {k \in 1..Len(links) : label[k] = key}
               last == CHOOSE k \in at : \A j \in at : j <= k
           IN  DictGet(socials, key) = ValueOf(links[last], key)

IsJsonObject(t) == Len(t) >= 2 /\ t[1] = "{" /\ Last(t) = "}"

\* a record whose every field but the identifier is at its empty default
OnlyIdentifier(rec, id, emptyMapping) ==
  /\ DOMAIN rec = FieldSet
  /\ rec["LinkedIn URL"] = id
  /\ rec["Name"] = <<>> /\ rec["Bio"] = <<>>
  /\ \A f \in MappingSet : rec[f] = emptyMapping

\* the first snapshot of the current identifier's page
FirstDoc == Snapshot(Site(url))

\* name, bio and the four sections of the record are what the page holds
HeaderAsInPage(rec) ==
  /\ rec["Name"] = (IF Present(FirstDoc.name) THEN Strip(FirstDoc.name[1]) ELSE <<>>)
  /\ rec["Bio"] = (IF Present(FirstDoc.bio) THEN Strip(FirstDoc.bio[1]) ELSE <<>>)

SectionsAsInSoup(rec) ==
  /\ rec["Experience"] = extract_experience(soup.doc)
  /\ rec["Education"] = extract_education(soup.doc)
  /\ rec["Certifications"] = extract_certifications(soup.doc)
  /\ rec["Projects"] = extract_projects(soup.doc)

LoopCompleted == pc = "done" \/ (pc = "finally" /\ ~raising)

----------------------------------------------------------------------------
\* C1: when the batch loop runs to completion the sink holds exactly one
\* row per input identifier, the i-th row carrying the i-th identifier,
\* whatever failed on the way; at no time does it hold more rows than
\* identifiers started, or a row out of place.
C1_OneRowPerIdentifier ==
  /\ LoopCompleted =>
       /\ Len(rows) = Len(profile_urls)
       /\ \A i \in 1..Len(profile_urls) : rows[i]["LinkedIn URL"] = profile_urls[i]
  /\ pc = "loop" => Len(rows) = idx
  /\ Len(rows) <= idx
  /\ \A i \in 1..Len(rows) : rows[i]["LinkedIn URL"] = profile_urls[i]

C1_Witness ==
  /\ pc = "done"
  /\ Len(profile_urls) >= 2
  /\ \E i \in 1..Len(rows) : nav_log[i] = "none" /\ ~paced[i]
  /\ \E i \in 1..Len(rows) : nav_log[i] = "timeout" /\ ~paced[i]

\* C2: driver.quit is called exactly once in every run: no call before the
\* finally clause, exactly one when the run has ended normally or by a
\* batch-level exception, and the run cannot stop anywhere else.
C2_ClosedExactlyOnce ==
  /\ pc \in {"done", "raised"} => quit_calls = 1
  /\ pc \notin {"done", "raised"} => (quit_calls = 0 /\ ENABLED Next)
  /\ raising => pc \in {"finally", "raised"}
  /\ pc = "raised" => raising

C2_Witness ==
  /\ pc = "raised"
  /\ quit_calls = 1
  /\ Len(rows) >= 1
  /\ idx > Len(rows)

\* C3 as stated: scrape_profile never raises to its caller.
C3_NeverRaises == outcome # "raised"

\* C3 amended: scrape_profile raises only when the login it triggered
\* failed; every failure of navigation, readiness wait, parsing, expansion
\* or extraction ends in a returned record carrying the identifier.
C3_RaisesOnlyOnLoginFailure ==
  /\ outcome = "raised" =>
       /\ ~is_logged_in
       /\ login_log # <<>> /\ ~Last(login_log)
       /\ log = {}
  /\ log # {} => outcome \in {"running", "returned"}
  /\ log \cap SyncFailures # {} => outcome = "returned"
  /\ pc = "write" =>
       /\ outcome = "returned"
       /\ DOMAIN profile_data = FieldSet
       /\ profile_data["LinkedIn URL"] = url

C3_Witness ==
  /\ pc = "write"
  /\ outcome = "returned"
  /\ "timeout" \in log

\* C4: an identifier whose synchronisation failed yields a record, and a
\* row, holding the identifier and empty defaults only; an identifier
\* that follows it and whose page loads is extracted in full.
C4_SyncFailureGivesEmptyRecord ==
  /\ (pc = "write" /\ nav_log[idx] \in SyncFailures) =>
       OnlyIdentifier(profile_data, url, <<>>)
  /\ \A i \in 1..Len(rows) :
       nav_log[i] \in SyncFailures =>
         OnlyIdentifier(rows[i], profile_urls[i], <<"{", "}">>)
  /\ (/\ pc = "write" /\ idx >= 2 /\ nav_log[idx - 1] \in SyncFailures
      /\ nav_log[idx] = "ok" /\ soup.gen = 2) =>
       /\ profile_data["LinkedIn URL"] = url
       /\ HeaderAsInPage(profile_data)
       /\ Classified(profile_data["Socials"], WithTarget(FirstDoc.links))
       /\ SectionsAsInSoup(profile_data)

C4_Witness ==
  /\ Len(rows) = 2
  /\ nav_log[1] = "timeout" /\ nav_log[2] = "ok"
  /\ paced[1] /\ paced[2]
  /\ OnlyIdentifier(rows[1], profile_urls[1], <<"{", "}">>)
  /\ rows[2]["Name"] # <<>>
  /\ \A f \in {"Socials", "Experience", "Education", "Projects"} :
       rows[2][f] # <<"{", "}">>

\* C5: every row handed to the sink has exactly the eight fields, each
\* mapping field is a JSON object, and it is the empty object when no
\* extractor ran for it.
C5_RowsStructurallyComplete ==
  /\ \A i \in 1..Len(rows) :
       /\ DOMAIN rows[i] = FieldSet
       /\ \A f \in MappingSet :
            /\ IsJsonObject(rows[i][f])
            /\ nav_log[i] # "ok" => rows[i][f] = <<"{", "}">>
  /\ (pc = "loop" /\ idx >= 1) =>
       \A f \in MappingSet : read_from[f] = 0 => rows[idx][f] = <<"{", "}">>

C5_Witness ==
  /\ Len(rows) >= 2
  /\ \E i \in 1..Len(rows) : nav_log[i] = "none" /\ ~paced[i]
  /\ \E i \in 1..Len(rows) :
       /\ nav_log[i] = "ok" /\ paced[i]
       /\ rows[i]["Socials"] # <<"{", "}">>
       /\ rows[i]["Experience"] = <<"{", "}">>

\* C6: after the social-link extractor has run, Socials holds exactly the
\* classification of the links it processed: label by the first matching
\* substring of the lower-cased target URL in the order twitter, github,
\* facebook, instagram, then website/portfolio; value the link's (trimmed)
\* visible text for a platform and the URL itself for Website; nothing for
\* a link that matches no substring.
C6_SocialClassification ==
  pc = "expand" =>
    Classified(profile_data["Socials"], WithTarget(soup.doc.links))

C6_Witness ==
  /\ pc = "expand"
  /\ Len(profile_data["Socials"]) >= 1
  /\ \E k \in 1..Len(soup.doc.links) :
       LET link == soup.doc.links[k]
       IN  /\ Present(link.href)
           /\ Cardinality(PlatformMatches(Lower(link.href[1]))) >= 1
           /\ Contains(S_website, Lower(link.href[1]))
           /\ K_Website \notin DictKeys(profile_data["Socials"])
  /\ \E k \in 1..Len(soup.doc.links) :
       /\ Present(soup.doc.links[k].href)
       /\ LabelOf(soup.doc.links[k]) = NoLabel
  /\ "social_warning" \notin log

\* C7 as stated: login is attempted at most once in a batch run.
C7_LoginAtMostOnce == Len(login_log) <= 1

\* C7 amended: login is attempted once per identifier until an attempt
\* succeeds and never after a success, so at most one attempt succeeds;
\* an identifier processed after a failed establishment triggers a new
\* attempt.
C7_LoginUntilSuccess ==
  /\ \A k \in 1..(Len(login_log) - 1) : ~login_log[k]
  /\ is_logged_in <=> (login_log # <<>> /\ Last(login_log))
  /\ Len(login_log) <= idx
  /\ ~is_logged_in => Len(login_log) = (IF pc = "call" THEN idx - 1 ELSE idx)

C7_Witness ==
  /\ Len(login_log) = 2
  /\ ~login_log[1]
  /\ idx = 2

\* C8: no field extractor reads the snapshot taken before expansion.
C8_ExtractorsReadExpandedSnapshot ==
  \A f \in DOMAIN read_from : read_from[f] \in {0, 2}

\* C9 as stated: when the social-link extractor fails, Socials is its
\* empty default and every other field is as without the failure.
C9_FailedExtractorLeavesDefault ==
  (pc = "write" /\ "social_warning" \in log) =>
    /\ profile_data["Socials"] = <<>>
    /\ HeaderAsInPage(profile_data)
    /\ soup.gen = 2 => SectionsAsInSoup(profile_data)

\* C9 amended: when the social-link extractor fails, Socials keeps the
\* entries of the links classified before the failing one (it is empty
\* only if there were none), and every other field is as without the
\* failure.
C9_FailedExtractorKeepsEarlierEntries ==
  (pc = "write" /\ "social_warning" \in log) =>
    /\ Classified(profile_data["Socials"], WithTarget(FirstDoc.links))
    /\ HeaderAsInPage(profile_data)
    /\ soup.gen = 2 => SectionsAsInSoup(profile_data)
    /\ soup.gen # 2 => \A f \in SectionNames : profile_data[f] = <<>>

C9_Witness ==
  /\ pc = "write"
  /\ "social_warning" \in log
  /\ profile_data["Socials"] # <<>>
  /\ profile_data["Certifications"] # <<>>

\* C10: whenever an identifier is being processed, the row of the
\* identifier before it was followed by the pacing delay.
C10_PacedBetweenIdentifiers ==
  \A i \in 1..Len(paced) : i < idx => paced[i]

====
